---- MODULE Spec2Model ----
(***************************************************************************)
(* Model of yum-dump.py: a command-line helper that lists the installed    *)
(* and available yum packages on standard output.  NumProcs instances of   *)
(* the script run on one host; they share the yum library (one version     *)
(* string), the package database and yum's global lock file, which other   *)
(* yum programs take and release as well.                                  *)
(***************************************************************************)
EXTENDS Integers, Sequences, FiniteSets, TLC

\* ------------------------------------------------------------- bounds ----
NumProcs == 2          \* instances of the script running on the host
MaxLen == 2            \* longest installed / available list of the backend

\* ---------------------------------------------------------- constants ----
LOCK_TIMEOUT == 10     \* seconds to wait for exclusive access to yum
ROOT == 0              \* os.geteuid() of a privileged process
NotExited == 0 - 1     \* exit / ret / status of a process that has none yet
Free == 0              \* YUM_PID_FILE does not exist
OtherYum == 0 - 1      \* YUM_PID_FILE is held by another yum program

Procs == 1..NumProcs
Euids == {ROOT, 500}

\* yum.__version__, one character per element
Versions == { <<"3", ".", "2">>, <<"2", ".", "4">>, <<"3", "0">>,
              <<"4", ".", "0">>, <<"1", "3", ".", "2">> }

\* package records of the backend; a name is its sequence of character codes
Pkg(n, v) == [name |-> n, epoch |-> 0, version |-> v, release |-> 1,
              arch |-> "x86_64"]
Pkgs == { Pkg(<<1>>, 1), Pkg(<<1, 2>>, 1), Pkg(<<1, 2>>, 2), Pkg(<<2>>, 1) }

SeqsUpTo(S, n) == UNION { [1..k -> S] : k \in 0..n }

\* every pair of lists doPackageLists can return, up to MaxLen records each
PackageLists == [installed : SeqsUpTo(Pkgs, MaxLen),
                 available : SeqsUpTo(Pkgs, MaxLen)]

\* the lists the backend returns on the host where several instances are run
HostLists == { [installed |-> <<>>, available |-> <<>>],
               [installed |-> << Pkg(<<2>>, 1), Pkg(<<1, 2>>, 1) >>,
                available |-> << Pkg(<<1, 2>>, 2) >>] }

VARIABLES
  running,        \* the instances of the script that are run
  yumVersion,     \* yum.__version__ of the library on the host
  universe,       \* which lists doPackageLists('all') can return here
  lockfile,       \* holder of YUM_PID_FILE: Free, OtherYum or an instance
  pc,             \* pc[p]: where instance p is
  euid,           \* os.geteuid() of p
  options,        \* options.cache of p
  yb,             \* the YumBase session of p
  status,         \* what setup returned to yum_dump
  countdown,      \* local of yum_dump
  lock_obtained,  \* local of yum_dump
  db,             \* local of dump_packages: what doPackageLists returned
  stdout,         \* the lines p has printed
  ret,            \* the value yum_dump returned to main
  exc,            \* the exception in flight in p, or the one main caught
  exit,           \* the exit status of p
  log,            \* the backend calls p has made, each with its outcome
  trace           \* the same calls and the sleeps of p, in the order made

vars == << running, yumVersion, universe, lockfile, pc, euid, options, yb, status,
           countdown, lock_obtained, db, stdout, ret, exc, exit, log,
           trace >>

\* ------------------------------------------------------ version probe ----
\* the match with the dot left out of the pattern
MatchMajor_NoDot(v, d) == Len(v) >= 1 /\ v[1] = d

\* re.search(r"^3\.", v) and re.search(r"^2\.", v)
MatchMajor(v, d) == Len(v) >= 2 /\ v[1] = d /\ v[2] = "."

YUM_VER == IF MatchMajor(yumVersion, "3") THEN 3
           ELSE IF MatchMajor(yumVersion, "2") THEN 2
           ELSE 0

\* ------------------------------------------------------------ session ----
None == "None"

NoSession == [created |-> FALSE, configured |-> FALSE, quiet |-> FALSE,
              showdupesfromrepos |-> FALSE, cache |-> FALSE]

\* yum.YumBase(): nothing is configured yet
YumBase == [NoSession EXCEPT !.created = TRUE]

\* what initialising the configuration can do under each binding
ConfigOutcomes(ver) == IF ver = 3 THEN {"ok", "ConfigError", "ValueError"}
                       ELSE {"ok", "ConfigError"}

\* the backend call that initialises the configuration under each binding
ConfigCall(ver) == IF ver = 3 THEN "conf" ELSE "doConfigSetup"

\* the configuration read from yum.conf, with the backend's logging silenced
LoadConf(file) ==
  [created |-> TRUE, configured |-> TRUE, quiet |-> TRUE,
   showdupesfromrepos |-> file.showdupesfromrepos, cache |-> file.cache]

\* the cache setting taken from the flag alone
CacheSetting_FlagOnly(e, opt) == opt

\* the cache setting chosen at the end of setup
CacheSetting(e, opt) == IF e # ROOT THEN TRUE ELSE opt

\* setup leaving showdupesfromrepos as yum.conf has it
Override_KeepsDupes(conf, e, opt) == [conf EXCEPT !.cache = CacheSetting(e, opt)]

\* the overrides setup applies to the loaded configuration
Override(conf, e, opt) ==
  [conf EXCEPT !.showdupesfromrepos = FALSE, !.cache = CacheSetting(e, opt)]

\* setup going on to return 0 after a configuration error
setup_ErrorIgnored(ver, e, opt, file, outcome) ==
  IF outcome = "ok"
    THEN [status |-> 0, exc |-> None, yb |-> Override(LoadConf(file), e, opt)]
    ELSE [status |-> 0, exc |-> None, yb |-> YumBase]

\* setup(yb, options) under binding ver when the backend does `outcome`:
\* what it returns (status), what it raises (exc) and the session it leaves
setup(ver, e, opt, file, outcome) ==
  IF outcome = "ok"
    THEN [status |-> 0, exc |-> None, yb |-> Override(LoadConf(file), e, opt)]
  ELSE IF ver = 3
    THEN [status |-> 1, exc |-> None, yb |-> YumBase]
  ELSE [status |-> NotExited, exc |-> outcome, yb |-> YumBase]

\* yum_dump never taking the lock
AfterSetup_NoLock(e) == "dump"

\* yum_dump taking the lock whoever runs it
AfterSetup_AlwaysLock(e) == "lock"

\* where yum_dump goes once setup has returned 0
AfterSetup(e) == IF e # ROOT THEN "dump" ELSE "lock"

\* --------------------------------------------------------- enumeration ----
\* cmp(x, y) on two names: ordinary lexical comparison
RECURSIVE cmp(_, _)
cmp(x, y) ==
  IF x = <<>> THEN (IF y = <<>> THEN 0 ELSE 0 - 1)
  ELSE IF y = <<>> THEN 1
  ELSE IF x[1] < y[1] THEN 0 - 1
  ELSE IF x[1] > y[1] THEN 1
  ELSE cmp(Tail(x), Tail(y))

\* every record tagged as installed
Tag_AllInstalled(list, t) ==
  [i \in 1..Len(list) |->
     [name |-> list[i].name, epoch |-> list[i].epoch,
      version |-> list[i].version, release |-> list[i].release,
      arch |-> list[i].arch, type |-> "i"]]

\* pkg.type = t for every pkg of the list
Tag(list, t) ==
  [i \in 1..Len(list) |->
     [name |-> list[i].name, epoch |-> list[i].epoch,
      version |-> list[i].version, release |-> list[i].release,
      arch |-> list[i].arch, type |-> t]]

\* x put into the sorted list s before the elements of its own name
Insert_BeforeEquals(s, x) ==
  LET k == Cardinality({i \in 1..Len(s) : cmp(s[i].name, x.name) < 0})
  IN SubSeq(s, 1, k) \o <<x>> \o SubSeq(s, k + 1, Len(s))

\* x put into the sorted list s behind every element that is not greater
Insert(s, x) ==
  LET k == Cardinality({i \in 1..Len(s) : cmp(s[i].name, x.name) <= 0})
  IN SubSeq(s, 1, k) \o <<x>> \o SubSeq(s, k + 1, Len(s))

\* the merged list left as it was concatenated
SortByName_Unsorted(all) == all

\* all.sort(lambda x, y: cmp(x.name, y.name)): list.sort is stable
RECURSIVE SortByName(_)
SortByName(all) ==
  IF all = <<>> THEN <<>>
  ELSE Insert(SortByName(SubSeq(all, 1, Len(all) - 1)), all[Len(all)])

\* the concatenation printed as it is
Merged_Unsorted(d) == Tag(d.available, "a") \o Tag(d.installed, "i")

\* the merged list that is printed
Merged(d) == SortByName(Tag(d.available, "a") \o Tag(d.installed, "i"))

\* print '%s %s %s %s %s %s' % (name, epoch, version, release, arch, type)
Line(pkg) ==
  << pkg.name, pkg.epoch, pkg.version, pkg.release, pkg.arch, pkg.type >>

Lines(d) == LET all == Merged(d) IN [i \in 1..Len(all) |-> Line(all[i])]

\* the backend calls of dump_packages, in order, under each binding; the
\* three setup calls of the legacy binding are taken as one
DumpCalls(ver) ==
  IF ver = 2 THEN << "doSackSetup", "doPackageLists" >>
  ELSE << "doPackageLists" >>

NoLists == [installed |-> <<>>, available |-> <<>>]

\* the pairs of lists doPackageLists('all') can return in universe u
Repos(u) == IF u = "any" THEN PackageLists ELSE HostLists

\* ---------------------------------------------------------------- log ----
Called(p, c) == \E e \in log[p] : e[1] = c
Returned(p, c) == << c, "ok" >> \in log[p]
Raised(p, c) == \E e \in log[p] : e[1] = c /\ e[2] # "ok"

\* ------------------------------------------------------------- actions ----
\* the instances R are started on a host whose backend returns lists of u
InitOf(R, u) ==
  /\ running = R
  /\ universe = u
  /\ yumVersion \in Versions
  /\ lockfile = Free
  /\ pc = [p \in R |-> "start"]
  /\ euid \in [R -> Euids]
  /\ options = [p \in R |-> FALSE]
  /\ yb = [p \in R |-> NoSession]
  /\ status = [p \in R |-> NotExited]
  /\ countdown = [p \in R |-> 0]
  /\ lock_obtained = [p \in R |-> FALSE]
  /\ db = [p \in R |-> NoLists]
  /\ stdout = [p \in R |-> <<>>]
  /\ ret = [p \in R |-> NotExited]
  /\ exc = [p \in R |-> None]
  /\ exit = [p \in R |-> NotExited]
  /\ log = [p \in R |-> {}]
  /\ trace = [p \in R |-> <<>>]

\* one instance, any lists of up to MaxLen records
Init == InitOf({1}, "any")

\* NumProcs instances on one host
InitHost == InitOf(Procs, "host")

\* main with handlers that end the run as a success
main_ErrorIsSuccess(r, e) == IF e # None THEN 0 ELSE r

\* the status main returns for what yum_dump returned (r) or raised (e)
main(r, e) == IF e # None THEN 1 ELSE r

\* module level: YUM_VER is chosen, or the script exits with status 1
VersionCheck(p) ==
  /\ pc[p] = "start"
  /\ IF YUM_VER # 0
       THEN /\ pc' = [pc EXCEPT ![p] = "setup"]
            /\ exit' = exit
       ELSE /\ pc' = [pc EXCEPT ![p] = "done"]
            /\ exit' = [exit EXCEPT ![p] = 1]
  /\ UNCHANGED << running, yumVersion, universe, lockfile, euid, options, yb,
                  status, countdown, lock_obtained, db, stdout, ret, exc, log,
                  trace >>

\* main parses the flag and calls yum_dump, which creates the session and
\* runs setup.  A status other than 0 is returned to main, an error of the
\* legacy doConfigSetup goes up to main, and the script exits; else yum_dump
\* goes on to the enumeration (non root) or to the lock loop (root)
yum_dump_setup(p) ==
  /\ pc[p] = "setup"
  /\ \E opt \in BOOLEAN, outcome \in ConfigOutcomes(YUM_VER),
        file \in [showdupesfromrepos : BOOLEAN, cache : BOOLEAN] :
       LET r == setup(YUM_VER, euid[p], opt, file, outcome) IN
         /\ options' = [options EXCEPT ![p] = opt]
         /\ yb' = [yb EXCEPT ![p] = r.yb]
         /\ status' = [status EXCEPT ![p] = r.status]
         /\ exc' = [exc EXCEPT ![p] = r.exc]
         /\ log' = [log EXCEPT ![p] =
                      @ \cup { << "YumBase", "ok" >>,
                               << ConfigCall(YUM_VER), outcome >> }]
         /\ trace' = [trace EXCEPT ![p] =
                        @ \o << << "YumBase", "ok" >>,
                                 << ConfigCall(YUM_VER), outcome >> >>]
         /\ IF r.status = 0
              THEN /\ pc' = [pc EXCEPT ![p] = AfterSetup(euid[p])]
                   /\ countdown' = [countdown EXCEPT ![p] =
                        IF AfterSetup(euid[p]) = "lock" THEN LOCK_TIMEOUT ELSE @]
                   /\ UNCHANGED << ret, exit >>
              ELSE /\ pc' = [pc EXCEPT ![p] = "done"]
                   /\ ret' = [ret EXCEPT ![p] = r.status]
                   /\ exit' = [exit EXCEPT ![p] = main(r.status, r.exc)]
                   /\ UNCHANGED countdown
  /\ UNCHANGED << running, yumVersion, universe, lockfile, euid, lock_obtained,
                  db, stdout >>

\* the lock loop falling through to the enumeration when it gives up
AfterLockError_GoesOn(c) == IF c = 0 THEN "dump" ELSE "lock"

\* the lock loop giving up one turn late
AfterLockError_OneMore(c) == IF c = 0 - 1 THEN "cleanup" ELSE "lock"

\* where the lock loop goes after a LockError, the countdown being c
AfterLockError(c) == IF c = 0 THEN "cleanup" ELSE "lock"

\* what doLock can do when the lock file has this holder: it takes the lock
\* only when the file is free and raises a LockError when it is held; an
\* error that is not a LockError is not caught by the loop
LockOutcomes(holder) ==
  (IF holder = Free THEN {"ok"} ELSE {"LockError"}) \cup {"YumBaseError"}

\* the loop's except clause catching every error
Caught_Any(o) == o # "ok"

\* whether the loop's except clause catches what doLock raised
Caught(o) == o = "LockError"

\* what a turn of the loop adds to the trace
LockTurn(o) ==
  IF Caught(o) THEN << << "doLock", o >>, << "sleep", "ok" >> >>
  ELSE << << "doLock", o >> >>

\* one turn of the lock loop: doLock, and on a LockError sleep, count down
\* and give up with 200 when the countdown is at 0; any other error of
\* doLock leaves the loop for the finally block
doLock(p) ==
  /\ pc[p] = "lock"
  /\ \E o \in LockOutcomes(lockfile) :
       /\ log' = [log EXCEPT ![p] = @ \cup { << "doLock", o >> }]
       /\ trace' = [trace EXCEPT ![p] = @ \o LockTurn(o)]
       /\ IF o = "ok"
            THEN /\ lockfile' = p
                 /\ lock_obtained' = [lock_obtained EXCEPT ![p] = TRUE]
                 /\ pc' = [pc EXCEPT ![p] = "dump"]
                 /\ UNCHANGED << countdown, ret, exc >>
          ELSE IF Caught(o)
            THEN /\ countdown' = [countdown EXCEPT ![p] = @ - 1]
                 /\ pc' = [pc EXCEPT ![p] = AfterLockError(countdown'[p])]
                 /\ ret' = [ret EXCEPT ![p] =
                      IF AfterLockError(countdown'[p]) = "cleanup" THEN 200 ELSE @]
                 /\ UNCHANGED << lockfile, lock_obtained, exc >>
          ELSE /\ exc' = [exc EXCEPT ![p] = o]
               /\ pc' = [pc EXCEPT ![p] = "cleanup"]
               /\ UNCHANGED << lockfile, lock_obtained, countdown, ret >>
  /\ UNCHANGED << running, yumVersion, universe, euid, options, yb, status, db,
                  stdout, exit >>

\* the lines printed although a backend call raised
Printed_BeforeError(n, lists) == Lines(lists)

\* the lines dump_packages prints: none when a backend call raised (n # 0)
Printed(n, lists) == IF n = 0 THEN Lines(lists) ELSE <<>>

\* dump_packages(yb): the backend calls are made in order; the first that
\* raises ends it (n is its position, 0 when none raises), else the merged
\* list is printed and 0 returned.  Without the lock (non root) main gets
\* the result and the script exits; with it the finally block comes next
dump_packages(p) ==
  /\ pc[p] = "dump"
  /\ \E n \in 0..Len(DumpCalls(YUM_VER)), err \in {"RepoError", "YumBaseError"},
        lists \in Repos(universe) :
       LET calls == DumpCalls(YUM_VER)
           r == IF n = 0 THEN 0 ELSE NotExited
           e == IF n = 0 THEN None ELSE err
       IN /\ log' = [log EXCEPT ![p] =
                       @ \cup { << calls[i], "ok" >> :
                                  i \in 1..(IF n = 0 THEN Len(calls) ELSE n - 1) }
                         \cup (IF n = 0 THEN {} ELSE { << calls[n], err >> })]
          /\ trace' = [trace EXCEPT ![p] =
                         @ \o [i \in 1..(IF n = 0 THEN Len(calls) ELSE n) |->
                                 << calls[i], IF i = n THEN err ELSE "ok" >>]]
          /\ db' = [db EXCEPT ![p] = IF n = 0 THEN lists ELSE @]
          /\ stdout' = [stdout EXCEPT ![p] = @ \o Printed(n, lists)]
          /\ ret' = [ret EXCEPT ![p] = r]
          /\ exc' = [exc EXCEPT ![p] = e]
          /\ IF euid[p] # ROOT
               THEN /\ pc' = [pc EXCEPT ![p] = "done"]
                    /\ exit' = [exit EXCEPT ![p] = main(r, e)]
               ELSE /\ pc' = [pc EXCEPT ![p] = "cleanup"]
                    /\ exit' = exit
  /\ UNCHANGED << running, yumVersion, universe, lockfile, euid, options, yb,
                  status, countdown, lock_obtained >>

\* the finally block never calling doUnlock
MustUnlock_Never(obtained) == FALSE

\* the finally block releasing the lock whether obtained or not
MustUnlock_Always(obtained) == TRUE

\* whether the finally block calls doUnlock
MustUnlock(obtained) == obtained = TRUE

\* the unlock handler setting the status without ending the raise
Finally_KeepsError(obtained, unlock, r, e) ==
  IF obtained = TRUE /\ unlock # "ok"
    THEN [ret |-> 200, exc |-> e]
    ELSE [ret |-> r, exc |-> e]

\* the unlock handler printing its message and returning nothing
Finally_UnlockErrorIgnored(obtained, unlock, r, e) == [ret |-> r, exc |-> e]

\* what yum_dump returns (ret) or raises (exc) at the end of the finally
\* block, r being returned or e raised when the block was entered: a
\* LockError of doUnlock makes it return 200 whatever r and e are
Finally(obtained, unlock, r, e) ==
  IF MustUnlock(obtained) /\ unlock # "ok"
    THEN [ret |-> 200, exc |-> None]
    ELSE [ret |-> r, exc |-> e]

\* the finally block calling doUnlock before closeRpmDB
CleanupCalls_UnlockFirst(obtained, unlock) ==
  (IF obtained = TRUE THEN << << "doUnlock", unlock >> >> ELSE <<>>)
    \o << << "closeRpmDB", "ok" >> >>

\* the backend calls of the finally block, in order
CleanupCalls(obtained, unlock) ==
  << << "closeRpmDB", "ok" >> >>
    \o (IF MustUnlock(obtained) THEN << << "doUnlock", unlock >> >> ELSE <<>>)

\* the finally block of yum_dump: closeRpmDB, then doUnlock if the lock was
\* obtained.  main gets the result and the script exits
cleanup(p) ==
  /\ pc[p] = "cleanup"
  /\ \E unlock \in {"ok", "LockError"} :
       LET f == Finally(lock_obtained[p], unlock, ret[p], exc[p])
           c == CleanupCalls(lock_obtained[p], unlock)
       IN /\ log' = [log EXCEPT ![p] = @ \cup { c[i] : i \in 1..Len(c) }]
          /\ trace' = [trace EXCEPT ![p] = @ \o c]
          /\ lockfile' = IF MustUnlock(lock_obtained[p]) /\ unlock = "ok"
                           THEN Free ELSE lockfile
          /\ ret' = [ret EXCEPT ![p] = f.ret]
          /\ exc' = [exc EXCEPT ![p] = f.exc]
          /\ exit' = [exit EXCEPT ![p] = main(f.ret, f.exc)]
  /\ pc' = [pc EXCEPT ![p] = "done"]
  /\ UNCHANGED << running, yumVersion, universe, euid, options, yb, status,
                  countdown, lock_obtained, db, stdout >>

\* another yum program takes the global lock
OtherYumLock ==
  /\ lockfile = Free
  /\ lockfile' = OtherYum
  /\ UNCHANGED << running, yumVersion, universe, pc, euid, options, yb, status,
                  countdown, lock_obtained, db, stdout, ret, exc, exit, log,
                  trace >>

\* and releases it
OtherYumUnlock ==
  /\ lockfile = OtherYum
  /\ lockfile' = Free
  /\ UNCHANGED << running, yumVersion, universe, pc, euid, options, yb, status,
                  countdown, lock_obtained, db, stdout, ret, exc, exit, log,
                  trace >>

Next ==
  \/ \E p \in running : VersionCheck(p)
  \/ \E p \in running : yum_dump_setup(p)
  \/ \E p \in running : doLock(p)
  \/ \E p \in running : dump_packages(p)
  \/ \E p \in running : cleanup(p)
  \/ OtherYumLock
  \/ OtherYumUnlock

Spec == Init /\ [][Next]_vars

SpecHost == InitHost /\ [][Next]_vars

\* a run without root, which is the enumeration without the lock: every
\* pair of lists goes through dump_packages
InitDump == InitOf({1}, "any") /\ euid = [p \in {1} |-> 500]

NextDump ==
  \/ \E p \in running : VersionCheck(p)
  \/ \E p \in running : yum_dump_setup(p)
  \/ \E p \in running : dump_packages(p)

SpecDump == InitDump /\ [][NextDump]_vars

\* the script is a sequential program whose sleep returns: an instance in
\* the lock loop makes its next turn
InitLive == InitOf({1}, "host")

SpecLive ==
  /\ InitLive /\ [][Next]_vars
  /\ \A p \in Procs : WF_vars(p \in running /\ doLock(p))

\* ------------------------------------------------------------- claims ----
Done(p) == pc[p] = "done"

\* dump_packages was entered by p
Enumerated(p) == \E i \in 1..Len(DumpCalls(YUM_VER)) : Called(p, DumpCalls(YUM_VER)[i])

\* the lock loop of p ended with every doLock having raised a LockError
LockTimedOut(p) ==
  /\ euid[p] = ROOT
  /\ pc[p] \in {"cleanup", "done"}
  /\ Called(p, "doLock")
  /\ \A e \in log[p] : e[1] = "doLock" => e[2] = "LockError"

\* C1: a privileged run in which every doLock fails until the countdown is
\* exhausted returns 200 from yum_dump, exits with 200, never enters
\* dump_packages and prints no line.
C1_LockTimeout ==
  \A p \in running :
    LockTimedOut(p) =>
      /\ countdown[p] = 0
      /\ ret[p] = 200
      /\ Done(p) => exit[p] = 200
      /\ ~Enumerated(p)
      /\ stdout[p] = <<>>

C1_Witness ==
  \E p \in running : LockTimedOut(p) /\ Done(p) /\ exit[p] = 200

C3_UnlockErrorIs200 ==
  \A p \in running :
    Raised(p, "doUnlock") =>
      (Done(p) /\ ret[p] = 200 /\ exc[p] = None /\ exit[p] = 200)

C3_Witness ==
  \E p \in running :
    Raised(p, "doUnlock") /\ Raised(p, "doPackageLists") /\ exit[p] = 200

\* p is between a doLock that succeeded and its doUnlock
Holding(p) == lock_obtained[p] /\ pc[p] \in {"dump", "cleanup"}

\* C4: at most one privileged instance at a time is between a successful
\* doLock and its doUnlock, and a privileged instance that is about to
\* enumerate is that one: no two privileged instances enumerate together.
C4_MutualExclusion ==
  /\ \A p \in running : (euid[p] = ROOT /\ pc[p] = "dump") => Holding(p)
  /\ \A p \in running : Holding(p) => lockfile = p
  /\ \A p, q \in running : (Holding(p) /\ Holding(q)) => p = q

C4_Witness ==
  \E p, q \in running :
    /\ p # q /\ euid[q] = ROOT
    /\ Holding(p) /\ pc[p] = "dump"
    /\ pc[q] = "lock" /\ Raised(q, "doLock")

\* C5: a run that is not privileged never calls doLock, whatever the cache
\* flag, and once setup has returned 0 it is in or past the enumeration.
C5_NonRootNeverLocks ==
  \A p \in running :
    euid[p] # ROOT =>
      /\ ~Called(p, "doLock")
      /\ pc[p] \notin {"lock", "cleanup"}
      /\ status[p] = 0 => (pc[p] = "dump" \/ (Done(p) /\ Enumerated(p)))

C5_Witness ==
  \E p \in running :
    euid[p] # ROOT /\ options[p] /\ Done(p) /\ Returned(p, "doPackageLists")

\* C6: once setup has returned 0 the cache setting of the session is
\* (euid # 0) or the cache flag, under both bindings.
C6_CachePolicy ==
  \A p \in running :
    status[p] = 0 =>
      /\ yb[p].configured
      /\ yb[p].cache = ((euid[p] # ROOT) \/ options[p])

C6_Witness ==
  \E p \in running :
    /\ status[p] = 0 /\ YUM_VER = 2
    /\ euid[p] # ROOT /\ ~options[p] /\ yb[p].cache

\* the number of places of s that hold x
Occ(s, x) == Cardinality({i \in 1..Len(s) : s[i] = x})

\* the line of record r with origin code t
LineOf(r, t) == << r.name, r.epoch, r.version, r.release, r.arch, t >>

\* C7: a dump_packages that returns has printed |I| + |A| lines, one per
\* record of I with origin code i and one per record of A with code a.
C7_OneLinePerRecord ==
  \A p \in running :
    Returned(p, "doPackageLists") =>
      /\ Len(stdout[p]) = Len(db[p].installed) + Len(db[p].available)
      /\ \A r \in Pkgs :
           /\ Occ(stdout[p], LineOf(r, "i")) = Occ(db[p].installed, r)
           /\ Occ(stdout[p], LineOf(r, "a")) = Occ(db[p].available, r)

C7_Witness ==
  \E p \in running :
    /\ Returned(p, "doPackageLists")
    /\ Len(stdout[p]) = 2 * MaxLen
    /\ \E i \in 1..Len(db[p].installed), j \in 1..Len(db[p].available) :
         db[p].installed[i].name = db[p].available[j].name

\* C8: the printed lines are in non-decreasing order of their name field.
C8_SortedByName ==
  \A p \in running :
    \A i, j \in 1..Len(stdout[p]) :
      i < j => cmp(stdout[p][i][1], stdout[p][j][1]) <= 0

C8_Witness ==
  \E p \in running :
    /\ Returned(p, "doPackageLists")
    /\ Len(db[p].installed) > 0 /\ Len(db[p].available) = MaxLen
    /\ cmp(db[p].available[MaxLen].name, db[p].installed[1].name) > 0
    /\ cmp(db[p].available[1].name, db[p].available[MaxLen].name) > 0

\* the version string is neither 2.x nor 3.x
Unsupported(v) == ~(Len(v) >= 2 /\ v[1] \in {"2", "3"} /\ v[2] = ".")

\* C9: with a version string that is neither 2.x nor 3.x the script exits
\* with status 1 at once: no line printed, no session created, nothing
\* configured, no backend call made.
C9_UnsupportedVersion ==
  \A p \in running :
    (Unsupported(yumVersion) /\ pc[p] # "start") =>
      /\ Done(p) /\ exit[p] = 1
      /\ stdout[p] = <<>>
      /\ yb[p] = NoSession
      /\ log[p] = {}

C9_Witness ==
  \E p \in running : yumVersion = << "3", "0" >> /\ Done(p) /\ exit[p] = 1

\* the backend raised a configuration error during setup
ConfigFailed(p) == Raised(p, "conf") \/ Raised(p, "doConfigSetup")

\* a run that fails in setup exits with 1 and goes no further
StopsAtSetup(p) ==
  /\ Done(p) /\ exit[p] = 1
  /\ ~Called(p, "doLock") /\ ~Called(p, "closeRpmDB")
  /\ ~Enumerated(p)
  /\ stdout[p] = <<>>

\* C10 as stated: on a configuration error, under either binding, setup
\* returns the failure status and raises nothing, yum_dump returns it, and
\* the run exits with 1 without lock, enumeration or output.
C10_SetupReturnsStatus ==
  \A p \in running :
    ConfigFailed(p) =>
      (status[p] = 1 /\ exc[p] = None /\ ret[p] = 1 /\ StopsAtSetup(p))

\* C10 as amended: on a configuration error the run exits with 1 without
\* lock, enumeration or output; under the modern binding setup returns 1
\* and yum_dump returns it, under the legacy binding the error goes out of
\* setup and yum_dump and main maps it to 1.
C10_ConfigErrorExits1 ==
  \A p \in running :
    ConfigFailed(p) =>
      /\ StopsAtSetup(p)
      /\ YUM_VER = 3 => (status[p] = 1 /\ ret[p] = 1 /\ exc[p] = None)
      /\ YUM_VER = 2 =>
           (status[p] = NotExited /\ ret[p] = NotExited /\ exc[p] = "ConfigError")

C10_Witness ==
  \E p \in running : ConfigFailed(p) /\ YUM_VER = 2 /\ exit[p] = 1

\* a backend call of the enumeration raised in p
EnumRaised(p) ==
  \E i \in 1..Len(DumpCalls(YUM_VER)) : Raised(p, DumpCalls(YUM_VER)[i])

\* C11: when a backend call of the enumeration raises a repository error or
\* a generic backend error, without the lock or with the lock and no lock
\* error in the cleanup, the error goes out of yum_dump, main catches it and
\* the exit status is 1.
C11_EscapedErrorExits1 ==
  \A p \in running :
    (Done(p) /\ EnumRaised(p) /\ (euid[p] # ROOT \/ ~Raised(p, "doUnlock"))) =>
      /\ exc[p] \in {"RepoError", "YumBaseError"}
      /\ ret[p] = NotExited
      /\ exit[p] = 1

C11_Witness ==
  \E p \in running :
    /\ Done(p) /\ euid[p] = ROOT
    /\ Raised(p, "doPackageLists") /\ Returned(p, "doUnlock")
    /\ exc[p] = "RepoError" /\ exit[p] = 1

\* the lines printed if the lists of d were concatenated installed first
\* and then sorted by name
InstalledFirst(d) ==
  LET all == SortByName(Tag(d.installed, "i") \o Tag(d.available, "a"))
  IN [i \in 1..Len(all) |-> Line(all[i])]

\* an installed record of d has the name of an available record of d
SharesName(d) ==
  \E i \in 1..Len(d.installed), j \in 1..Len(d.available) :
    d.installed[i].name = d.available[j].name

\* C12 as stated: for all lists, shared names included, the lines printed
\* are the lines that sorting installed ++ available by name would print.
C12_OrderIrrelevant ==
  \A p \in running :
    Returned(p, "doPackageLists") => stdout[p] = InstalledFirst(db[p])

\* C12 as amended: the lines printed are those of installed ++ available
\* sorted by name when no installed record has the name of an available
\* record; in every case the two sequences hold the same lines, each as
\* often, with the same name at every position.
C12_OrderIrrelevantUpToTies ==
  \A p \in running :
    Returned(p, "doPackageLists") =>
      LET other == InstalledFirst(db[p])
      IN /\ ~SharesName(db[p]) => stdout[p] = other
         /\ Len(stdout[p]) = Len(other)
         /\ \A i \in 1..Len(other) :
              /\ stdout[p][i][1] = other[i][1]
              /\ Occ(stdout[p], other[i]) = Occ(other, other[i])

C12_Witness ==
  \E p \in running :
    /\ Returned(p, "doPackageLists")
    /\ ~SharesName(db[p])
    /\ Len(db[p].installed) = 2 /\ Len(db[p].available) = 1
    /\ stdout[p][1][6] = "i" /\ stdout[p][2][6] = "a" /\ stdout[p][3][6] = "i"

\* the number of calls of c in the trace of p
Count(p, c) == Cardinality({i \in 1..Len(trace[p]) : trace[p][i][1] = c})

LockFailed == << "doLock", "LockError" >>
LockOther == << "doLock", "YumBaseError" >>
Slept == << "sleep", "ok" >>

\* p is in the lock loop / has left it
InLoop(p) == p \in running /\ pc[p] = "lock"
LoopLeft(p) == p \in running /\ pc[p] # "lock"

\* the bounds of the lock loop that hold whatever makes doLock fail
LoopBounded(p) ==
  /\ Count(p, "doLock") <= LOCK_TIMEOUT
  /\ LockTimedOut(p) => Count(p, "doLock") = LOCK_TIMEOUT
  /\ InLoop(p) => countdown[p] \in 1..LOCK_TIMEOUT
  /\ Called(p, "doLock") =>
       countdown[p] = LOCK_TIMEOUT - Occ(trace[p], LockFailed)
  /\ \A i \in 1..Len(trace[p]) :
       /\ trace[p][i] = LockFailed =>
            (i < Len(trace[p]) /\ trace[p][i + 1] = Slept)
       /\ trace[p][i] = Slept => (i > 1 /\ trace[p][i - 1] = LockFailed)
       /\ trace[p][i] = << "doLock", "ok" >> =>
            \A j \in (i + 1)..Len(trace[p]) :
              trace[p][j][1] \notin {"doLock", "sleep"}

\* every turn of the loop leaves it or takes one from the countdown
LoopTurn(p) ==
  (pc[p] = "lock" /\ trace'[p] # trace[p]) =>
    \/ pc'[p] # "lock"
    \/ countdown'[p] = countdown[p] - 1

\* C13 as stated: at most LOCK_TIMEOUT calls of doLock, exactly that many
\* when all fail with the lock held, one sleep and one decrement after
\* every failed attempt, no doLock after a success, and a loop that is left
\* in a success or in a timeout only.
C13_SuccessOrTimeoutOnly ==
  \A p \in running :
    /\ LoopBounded(p)
    /\ \A i \in 1..Len(trace[p]) :
         (trace[p][i][1] = "doLock" /\ trace[p][i][2] # "ok") =>
           (i < Len(trace[p]) /\ trace[p][i + 1] = Slept)
    /\ (Called(p, "doLock") /\ LoopLeft(p)) =>
         (Returned(p, "doLock") \/ LockTimedOut(p))

\* C13 as amended: at most LOCK_TIMEOUT calls of doLock, exactly that many
\* when all fail with the lock held, one sleep and one decrement after every
\* attempt that fails with a LockError, no doLock after a success; every
\* turn leaves the loop or decrements the countdown, the loop is always
\* left, and it is left in a success, in a timeout, or with an error of
\* doLock that is not a LockError and is followed by no sleep and no retry.
C13_LoopBounded ==
  /\ [](\A p \in running :
          /\ LoopBounded(p)
          /\ (Called(p, "doLock") /\ LoopLeft(p)) =>
               \/ Returned(p, "doLock") /\ Occ(trace[p], LockOther) = 0
               \/ LockTimedOut(p) /\ ~Returned(p, "doLock")
               \/ /\ Occ(trace[p], LockOther) = 1
                  /\ ~Returned(p, "doLock")
                  /\ countdown[p] > 0
                  /\ \E i \in 1..Len(trace[p]) :
                       /\ trace[p][i] = LockOther
                       /\ \A j \in (i + 1)..Len(trace[p]) :
                            trace[p][j][1] \notin {"doLock", "sleep"})
  /\ [][\A p \in running : LoopTurn(p)]_vars
  /\ \A p \in Procs : InLoop(p) ~> LoopLeft(p)

C13_Witness ==
  \E p \in running :
    /\ Done(p) /\ LockTimedOut(p)
    /\ Count(p, "doLock") = LOCK_TIMEOUT
    /\ Occ(trace[p], Slept) = LOCK_TIMEOUT
    /\ exit[p] = 200

\* C14: an instance that has requested the lock has closed the database
\* handle exactly once when it exits, by success, by an error of the
\* enumeration or by timeout; closeRpmDB comes after the lock loop and the
\* enumeration, and before doUnlock when doUnlock is called.
C14_CloseOnceBeforeUnlock ==
  \A p \in running :
    Called(p, "doLock") =>
      /\ Count(p, "closeRpmDB") = (IF Done(p) THEN 1 ELSE 0)
      /\ \A i \in 1..Len(trace[p]) :
           trace[p][i][1] = "closeRpmDB" =>
             \A j \in 1..Len(trace[p]) :
               /\ trace[p][j][1] = "doUnlock" => i < j
               /\ trace[p][j][1] \in {"doLock", "sleep", "doSackSetup",
                                      "doPackageLists"} => j < i

C14_Witness ==
  \E p \in running :
    /\ Done(p)
    /\ Returned(p, "doLock") /\ EnumRaised(p)
    /\ Count(p, "closeRpmDB") = 1 /\ Count(p, "doUnlock") = 1
    /\ trace[p][Len(trace[p])][1] = "doUnlock"

\* the step adds a call of doUnlock to the trace of p
Unlocks(p) == Count(p, "doUnlock")' > Count(p, "doUnlock")

\* C15: doUnlock is called at most once, and only by an instance whose own
\* doLock has succeeded and which holds the lock at the call; it is never
\* called after a timeout, after a doLock error that is not a LockError,
\* without root or after a configuration failure, and a lock held by
\* another process is never released by an instance.
C15_UnlockOnlyOwnLock ==
  /\ [](\A p \in running :
          /\ Count(p, "doUnlock") <= 1
          /\ Called(p, "doUnlock") =>
               (Returned(p, "doLock") /\ lock_obtained[p])
          /\ (\/ LockTimedOut(p)
              \/ Occ(trace[p], LockOther) > 0
              \/ euid[p] # ROOT
              \/ ConfigFailed(p)) => ~Called(p, "doUnlock"))
  /\ [][\A p \in running :
          /\ Unlocks(p) => (lockfile = p /\ lockfile' \in {p, Free})
          /\ (trace'[p] # trace[p] /\ lockfile # p) =>
               (lockfile' = lockfile \/ (lockfile = Free /\ lockfile' = p))]_vars

C15_Witness ==
  \E p \in running :
    /\ Done(p) /\ lockfile = OtherYum
    /\ \/ LockTimedOut(p)
       \/ Occ(trace[p], LockOther) > 0
    /\ Count(p, "closeRpmDB") = 1 /\ Count(p, "doUnlock") = 0

\* the session of p is configured as setup leaves it
Configured(p) ==
  /\ yb[p].configured /\ yb[p].quiet
  /\ ~yb[p].showdupesfromrepos
  /\ yb[p].cache = CacheSetting(euid[p], options[p])

\* C16: the session is configured (logging silenced, showdupesfromrepos
\* False, cache chosen) when setup has returned 0, hence before the first
\* doLock and before any query, whatever yum.conf holds; the calls that
\* configure come first in the trace, and no step after setup changes the
\* session, so showdupesfromrepos stays False until the exit.
C16_ConfiguredOnceBeforeUse ==
  /\ [](\A p \in running :
          /\ status[p] = 0 => Configured(p)
          /\ (Called(p, "doLock") \/ Enumerated(p)) => status[p] = 0
          /\ \A i, j \in 1..Len(trace[p]) :
               (/\ trace[p][i][1] \in {"YumBase", "conf", "doConfigSetup"}
                /\ trace[p][j][1] \notin {"YumBase", "conf", "doConfigSetup"})
                 => i < j)
  /\ [][\A p \in running :
          /\ status[p] = 0 => (yb'[p] = yb[p] /\ status'[p] = 0)
          /\ yb'[p] # yb[p] => (pc[p] = "setup" /\ trace[p] = <<>>)]_vars

C16_Witness ==
  \E p \in running :
    /\ Done(p) /\ exit[p] = 0 /\ euid[p] = ROOT
    /\ Returned(p, "doLock") /\ Returned(p, "doPackageLists")
    /\ Configured(p) /\ yb[p].cache

\* the calls of the lock loop
Retried == {"doLock", "sleep"}

\* C17: only doLock is called more than once; setup and the listing are
\* called at most once, and after a failure of either no backend call
\* follows but those of the cleanup and the exit status is not 0; a doLock
\* error that is not a LockError is followed by no sleep and no doLock, only
\* by the cleanup, and reaches main, which exits with 1.
C17_OnlyLockRetried ==
  \A p \in running :
    /\ \A i \in 1..Len(trace[p]) :
         trace[p][i][1] \notin Retried =>
           \A j \in (i + 1)..Len(trace[p]) : trace[p][j][1] # trace[p][i][1]
    /\ \A i \in 1..Len(trace[p]) :
         (trace[p][i][2] # "ok" /\ trace[p][i] # LockFailed) =>
           \A j \in (i + 1)..Len(trace[p]) :
             trace[p][j][1] \in {"closeRpmDB", "doUnlock"}
    /\ (Done(p) /\ (ConfigFailed(p) \/ EnumRaised(p))) => exit[p] \in {1, 200}
    /\ Occ(trace[p], LockOther) > 0 =>
         /\ Occ(trace[p], LockOther) = 1
         /\ pc[p] \in {"cleanup", "done"}
         /\ exc[p] = "YumBaseError"
         /\ Done(p) => (exit[p] = 1 /\ Count(p, "closeRpmDB") = 1)

C17_Witness ==
  \E p \in running :
    /\ Done(p) /\ exit[p] = 1
    /\ Occ(trace[p], LockFailed) = 2
    /\ Occ(trace[p], LockOther) = 1
    /\ trace[p][Len(trace[p])] = << "closeRpmDB", "ok" >>

\* C18: when a backend call of the enumeration, the pre-listing setup or
\* doPackageLists, has raised, no line has been written, in the state after
\* the call and in every later one up to the exit; lines are written only
\* once doPackageLists has returned.
C18_NoPartialOutput ==
  \A p \in running :
    /\ EnumRaised(p) => (stdout[p] = <<>> /\ db[p] = NoLists)
    /\ stdout[p] # <<>> => Returned(p, "doPackageLists")

C18_Witness ==
  \E p \in running :
    /\ Done(p) /\ YUM_VER = 2
    /\ Returned(p, "doSackSetup") /\ Raised(p, "doPackageLists")
    /\ stdout[p] = <<>> /\ exit[p] = 1

\* the number of records of list with a name less than n / with name n
\* among the first k
Below(list, n) == Cardinality({i \in 1..Len(list) : cmp(list[i].name, n) < 0})
SameBefore(list, n, k) == Cardinality({i \in 1..k : list[i].name = n})

\* the place in the output of the i-th available / installed record of d
PosA(d, i) ==
  LET n == d.available[i].name
  IN Below(d.available, n) + Below(d.installed, n)
       + SameBefore(d.available, n, i - 1) + 1
PosI(d, i) ==
  LET n == d.installed[i].name
  IN Below(d.available, n) + Below(d.installed, n)
       + SameBefore(d.available, n, Len(d.available))
       + SameBefore(d.installed, n, i - 1) + 1

\* C19: among lines of one name every available line comes before every
\* installed line and the lines of one origin come in the order of the
\* backend's list; the place of every line is thereby a function of the two
\* lists: the records of smaller name, then the available records of the
\* name, then the installed ones.
C19_TiesAvailableFirstStable ==
  \A p \in running :
    Returned(p, "doPackageLists") =>
      /\ \A i, j \in 1..Len(stdout[p]) :
           (i < j /\ stdout[p][i][1] = stdout[p][j][1]) =>
             ~(stdout[p][i][6] = "i" /\ stdout[p][j][6] = "a")
      /\ \A i \in 1..Len(db[p].available) :
           stdout[p][PosA(db[p], i)] = LineOf(db[p].available[i], "a")
      /\ \A i \in 1..Len(db[p].installed) :
           stdout[p][PosI(db[p], i)] = LineOf(db[p].installed[i], "i")

C19_Witness ==
  \E p \in running :
    /\ Returned(p, "doPackageLists")
    /\ Len(stdout[p]) = 3
    /\ \A i \in 1..3 : stdout[p][i][1] = <<1, 2>>
    /\ stdout[p][1][6] = "a"
    /\ stdout[p][2][6] = "i" /\ stdout[p][2][3] = 2
    /\ stdout[p][3][6] = "i" /\ stdout[p][3][3] = 1

\* C20: an instance that has exited has status 0, 1 or 200, and status 0
\* only after setup returned 0, the enumeration returned and printed a line
\* for every record, nothing was raised, and, as root, doLock succeeded
\* within LOCK_TIMEOUT attempts and doUnlock returned, leaving the lock
\* released; an instance that has not exited has no status.
C20_ExitStatus ==
  \A p \in running :
    /\ ~Done(p) => exit[p] = NotExited
    /\ Done(p) => exit[p] \in {0, 1, 200}
    /\ (Done(p) /\ exit[p] = 0) =>
         /\ status[p] = 0 /\ ret[p] = 0 /\ exc[p] = None
         /\ Returned(p, "doPackageLists") /\ ~EnumRaised(p)
         /\ Len(stdout[p]) = Len(db[p].installed) + Len(db[p].available)
         /\ euid[p] = ROOT =>
              /\ Returned(p, "doLock")
              /\ Count(p, "doLock") <= LOCK_TIMEOUT
              /\ Returned(p, "doUnlock") /\ ~Raised(p, "doUnlock")
              /\ lockfile # p

C20_Witness ==
  \E p \in running :
    /\ Done(p) /\ exit[p] = 0 /\ euid[p] = ROOT
    /\ Count(p, "doLock") = LOCK_TIMEOUT
    /\ Returned(p, "doUnlock")
    /\ Len(stdout[p]) = 2 * MaxLen
====
